---------------------------- MODULE Spec2Model ----------------------------
(***************************************************************************)
(* Model of apple_refurb_fixed.py: the retrying page fetcher, the listing  *)
(* parser, the detail task, the thread-pool detail pipeline, the           *)
(* aggregation into a price-sorted table, and main.                        *)
(*                                                                         *)
(* Strings of the program are modelled as sequences of tokens.  A token is *)
(* either a keyword (an ASCII name standing for the literal the code       *)
(* matches) or a number run: a maximal run of the characters [0-9,] held   *)
(* as a sequence of one-character strings.  Optional white space between   *)
(* tokens (the \s* of the patterns) is not represented.                    *)
(*                                                                         *)
(* An optional value (Python's None or a value) is a sequence of length    *)
(* at most one: <<>> is None, <<v>> is the value v.                        *)
(***************************************************************************)
EXTENDS Integers, Sequences, FiniteSets, Bags, TLC

VARIABLES
    entry,      \* the function under execution: the entry point of the run
    pc,         \* the position of the entry function
    fp,         \* the frame of the running fetch_page call
    calls,      \* the functions main has invoked so far, in order
    listing,    \* the HTML handed to parse_product_list
    products,   \* the list of product records (parse result, pipeline input);
                \* a record is a dict object, identified by its position
    max_workers, \* the pool width given to process_products_parallel
    stage,      \* the position of process_products_parallel
    submitted,  \* the number of products submitted to the executor so far
    futures,    \* per product, the frame of its fetch_product_details task
    completed,  \* the counter of line 192
    progress,   \* the progress lines printed at line 196
    results,    \* the list of line 188: references (positions) of records
    report,     \* the counts printed at line 204, once returned
    given,      \* the records as they were when create_dataframe was called
    df,         \* the table create_dataframe returned
    saved       \* the table handed to save_results

vars == <<entry, pc, fp, calls, listing, products, max_workers, stage,
          submitted, futures, completed, progress, results, report,
          given, df, saved>>

aggVars == <<given, df, saved>>

pipeVars == <<max_workers, stage, submitted, futures, completed, progress,
              results, report>>

None == <<>>
Some(v) == <<v>>

\* `not v` for v that is None or a string: None and '' are both false.
falsy(v) == IF v = None THEN TRUE ELSE v[1] = <<>>

(***************************************************************************)
(* Bounds of the model.                                                    *)
(***************************************************************************)
MaxRetry == 4

(***************************************************************************)
(* fetch_page(url, retry): lines 16-34.                                    *)
(* The frame of one call: the loop index `attempt`, the position in the    *)
(* loop body (get: about to GET; sleep: inside the except branch, about to *)
(* time.sleep(1); done: returned), the returned value and the sequence of  *)
(* GETs and sleeps performed so far.                                       *)
(***************************************************************************)
TransportErrors == {"timeout", "connection_error", "bad_status"}

fetch_page_call(url, retry) ==
    [url |-> url, retry |-> retry, attempt |-> 0,
     at |-> IF retry > 0 THEN "get" ELSE "done",
     result |-> None, log |-> <<>>]

\* Lines 26-28: the GET succeeded with a 2xx status; the body is returned.
fetch_page_ok(f, body) ==
    [f EXCEPT !.at = "done", !.result = Some(body), !.log = Append(@, "get_ok")]

\* Lines 29-32 as a plausible slip: the last attempt is not recognised.
fetch_page_error_offbyone(f, e) ==
    IF f.attempt = f.retry
    THEN [f EXCEPT !.at = "done", !.result = None,
                   !.log = Append(@, "get_err")]
    ELSE [f EXCEPT !.at = "sleep", !.log = Append(@, "get_err")]

\* Lines 29-33: the GET or raise_for_status raised; on the last attempt the
\* error e is logged and None returned, otherwise the loop goes on to sleep.
fetch_page_error(f, e) ==
    IF f.attempt = f.retry - 1
    THEN [f EXCEPT !.at = "done", !.result = None,
                   !.log = Append(@, "get_err")]
    ELSE [f EXCEPT !.at = "sleep", !.log = Append(@, "get_err")]

\* Line 33 and the loop header at line 24: sleep one unit, next attempt; the
\* loop ends (line 34) when the range is exhausted.
fetch_page_sleep(f) ==
    [f EXCEPT !.attempt = @ + 1,
              !.at = IF f.attempt + 1 < f.retry THEN "get" ELSE "done",
              !.log = Append(@, "sleep")]

(***************************************************************************)
(* Pages.  An HTML body is the sequence of its element nodes; the empty    *)
(* body '' is <<>>.  A node carries its tag, its href (a token sequence:   *)
(* an optional scheme-and-host token, a path token, then optionally "?"    *)
(* and a query token) and its visible text (a token sequence).             *)
(***************************************************************************)
Origin == "https://www.apple.com.cn"
HttpOrigin == "http://www.apple.com.cn"
ListingUrl == <<Origin, "/shop/refurbished/mac">>

\* The paths that match the pattern /shop/product/\w+/a of line 43.
ProductPaths == {"/shop/product/A/a", "/shop/product/B/a"}

\* str.startswith('http') on a token sequence: the first token is a
\* scheme-and-host token.
StartsWithHttp(url) == Len(url) > 0 /\ url[1] \in {Origin, HttpOrigin}

Node(tag, href, text) == [tag |-> tag, href |-> href, text |-> text]

\* Two listing titles: the marker, a product name, and the configuration.
TitleAir ==
    <<"refurb", "MacBook Air", "13", "inch", "Apple", "M2", "8", "cpu_cores",
      "10", "gpu_cores", "space_gray">>
TitleMini == <<"refurb", "Mac mini", "Apple", "M2", "Pro", "rose_gold">>

Hrefs ==
    { <<"/shop/product/A/a">>,
      <<Origin, "/shop/product/A/a", "?", "fnode=1">>,
      <<"/shop/product/B/a", "?", "fnode=2">>,
      <<HttpOrigin, "/shop/product/A/a">>,
      <<"/shop/buy-mac">> }

FetchBodies ==
    { <<>>, <<Node("div", <<>>, <<>>)>>,
      <<Node("a", <<"/shop/product/A/a">>, TitleMini)>> }

\* The listing pages of the specification of main: the empty body, a page
\* without links, a page with an image link and a title link to one
\* product, and a page with two products, one of them linked twice.
MainListings ==
    { <<>>,
      <<Node("div", <<>>, <<>>)>>,
      <<Node("a", <<"/shop/product/A/a">>, <<>>),
        Node("a", <<"/shop/product/A/a">>, TitleAir)>>,
      <<Node("a", <<Origin, "/shop/product/A/a", "?", "fnode=1">>, TitleAir),
        Node("a", <<"/shop/product/B/a", "?", "fnode=2">>, TitleMini),
        Node("a", <<"/shop/product/A/a">>, TitleMini)>> }
FetchUrls == { ListingUrl, <<Origin, "/shop/product/A/a">>,
               <<Origin, "/shop/product/B/a">> }

\* The pipeline before process_products_parallel is called.
PipeIdle ==
    /\ max_workers = 0
    /\ stage = "idle"
    /\ submitted = 0
    /\ futures = <<>>
    /\ completed = 0
    /\ progress = <<>>
    /\ results = <<>>
    /\ report = None

\* Before create_dataframe and save_results are called.
AggIdle ==
    /\ given = <<>>
    /\ df = <<>>
    /\ saved = None

(***************************************************************************)
(* The steps of a running fetch_page call held in fp.                      *)
(***************************************************************************)
ResponseBodies == IF entry = "main" THEN MainListings ELSE FetchBodies

FetchGetOk ==
    /\ fp.at = "get"
    /\ \E body \in ResponseBodies : fp' = fetch_page_ok(fp, body)
    /\ UNCHANGED <<entry, pc, calls, listing, products, pipeVars, aggVars>>

FetchGetError ==
    /\ fp.at = "get"
    /\ \E e \in TransportErrors : fp' = fetch_page_error(fp, e)
    /\ UNCHANGED <<entry, pc, calls, listing, products, pipeVars, aggVars>>

FetchSleep ==
    /\ fp.at = "sleep"
    /\ fp' = fetch_page_sleep(fp)
    /\ UNCHANGED <<entry, pc, calls, listing, products, pipeVars, aggVars>>

(***************************************************************************)
(* SpecFetch: one call fetch_page(url, retry) for every url and retry of   *)
(* the bounded input sets, under every sequence of transport outcomes.     *)
(***************************************************************************)
InitFetch ==
    /\ entry = "fetch_page"
    /\ pc = "call"
    /\ calls = <<>>
    /\ listing = <<>>
    /\ products = <<>>
    /\ PipeIdle
    /\ AggIdle
    /\ \E u \in FetchUrls, r \in 0..MaxRetry : fp = fetch_page_call(u, r)

NextFetch == FetchGetOk \/ FetchGetError \/ FetchSleep

SpecFetch == InitFetch /\ [][NextFetch]_vars

\* The number of entries of log that are GETs.
RECURSIVE Gets(_)
Gets(log) ==
    IF log = <<>> THEN 0
    ELSE (IF Head(log) \in {"get_ok", "get_err"} THEN 1 ELSE 0) + Gets(Tail(log))

\* C3: for retry >= 1 a call of fetch_page makes at most retry GETs; a
\* successful GET is the last thing the call does and its body is what is
\* returned; None is returned only after exactly retry failed GETs; and a
\* one-unit sleep happens only between a failed GET and the next GET, never
\* after the last failed GET or after a success.
C3_FetchPageRetry ==
    fp.retry >= 1 =>
        /\ Gets(fp.log) <= fp.retry
        /\ \A i \in 1..Len(fp.log) :
              /\ fp.log[i] = "get_ok" =>
                    i = Len(fp.log) /\ fp.at = "done" /\ fp.result # None
              /\ fp.log[i] = "sleep" =>
                    /\ i > 1 /\ fp.log[i-1] = "get_err"
                    /\ IF i < Len(fp.log)
                       THEN fp.log[i+1] \in {"get_ok", "get_err"}
                       ELSE fp.at = "get"
              /\ (fp.log[i] = "get_err" /\ i < Len(fp.log)) =>
                    fp.log[i+1] = "sleep"
        /\ (fp.at = "done" /\ fp.result # None) =>
              fp.log[Len(fp.log)] = "get_ok"
        /\ (fp.at = "done" /\ fp.result = None) =>
              /\ Gets(fp.log) = fp.retry
              /\ Len(fp.log) = 2 * fp.retry - 1
              /\ \A i \in 1..Len(fp.log) : fp.log[i] # "get_ok"

\* A call with retry = 3 that failed three times, sleeping twice in between.
C3_Witness ==
    /\ entry = "fetch_page"
    /\ fp.retry = 3 /\ fp.at = "done" /\ fp.result = None
    /\ fp.log = <<"get_err", "sleep", "get_err", "sleep", "get_err">>

(***************************************************************************)
(* parse_product_list(html_content): lines 37-63.                          *)
(***************************************************************************)
\* str.split('?')[0]: the tokens before the first "?".
RECURSIVE BeforeQuery(_)
BeforeQuery(url) ==
    IF url = <<>> \/ Head(url) = "?" THEN <<>>
    ELSE <<Head(url)>> \o BeforeQuery(Tail(url))

\* Lines 49-53 without the query strip of line 53.
normalize_url_keep_query(href) ==
    IF StartsWithHttp(href) THEN href ELSE <<Origin>> \o href

\* Lines 49-53: make the href absolute, then drop the query string.
normalize_url(href) ==
    BeforeQuery(IF StartsWithHttp(href) THEN href ELSE <<Origin>> \o href)

\* Line 43: the <a> nodes whose href contains a product-detail path.
IsProductLink(n) ==
    n.tag = "a" /\ \E i \in 1..Len(n.href) : n.href[i] \in ProductPaths

\* Line 48: title.startswith of the refurbished marker.
IsRefurbTitle(title) == Len(title) > 0 /\ title[1] = "refurb"

\* Lines 45-61: the loop over product_links with the set seen_urls.
RECURSIVE parse_loop(_, _, _)
parse_loop(links, seen_urls, acc) ==
    IF links = <<>> THEN acc
    ELSE LET link == Head(links)
             title == link.text
             url == normalize_url(link.href)
         IN  IF IsRefurbTitle(title) /\ url \notin seen_urls
             THEN parse_loop(Tail(links), seen_urls \cup {url},
                             Append(acc, [title |-> title, url |-> url]))
             ELSE parse_loop(Tail(links), seen_urls, acc)

parse_product_list(html_content) ==
    parse_loop(SelectSeq(html_content, IsProductLink), {}, <<>>)

(***************************************************************************)
(* SpecList: parse_product_list applied to every listing of at most        *)
(* MaxLinks nodes over the hrefs and titles below.                         *)
(***************************************************************************)
MaxLinks == 3

ListingTitles == { TitleAir, TitleMini, <<>> }

ListingNodes == { Node("a", h, t) : h \in Hrefs, t \in ListingTitles }

Listings == UNION { [1..n -> ListingNodes] : n \in 0..MaxLinks }

InitList ==
    /\ entry = "parse_product_list"
    /\ pc = "call"
    /\ calls = <<>>
    /\ fp = fetch_page_call(ListingUrl, 0)
    /\ listing \in Listings
    /\ products = <<>>
    /\ PipeIdle
    /\ AggIdle

ParseList ==
    /\ entry = "parse_product_list" /\ pc = "call"
    /\ products' = parse_product_list(listing)
    /\ pc' = "returned"
    /\ UNCHANGED <<entry, fp, calls, listing, pipeVars, aggVars>>

NextList == ParseList

SpecList == InitList /\ [][NextList]_vars

\* The target of an href, read off its tokens without the code's string
\* operations: the scheme-and-host (the site origin when the href is
\* relative) and the path token.
C4_Target(href) ==
    IF href[1] \in {Origin, HttpOrigin} THEN <<href[1], href[2]>>
    ELSE <<Origin, href[1]>>

\* products holds exactly one record per distinct target among links, each
\* with the title of the first link of that target, in first-seen order.
C4_OnePerUrl(links) ==
    LET First(u) == CHOOSE i \in 1..Len(links) :
                        /\ C4_Target(links[i].href) = u
                        /\ \A j \in 1..(i-1) : C4_Target(links[j].href) # u
        U == { C4_Target(links[i].href) : i \in 1..Len(links) }
    IN  /\ Len(products) = Cardinality(U)
        /\ \A k \in 1..Len(products) :
              /\ products[k].url \in U
              /\ products[k].title = links[First(products[k].url)].text
        /\ \A k, l \in 1..Len(products) :
              k < l => First(products[k].url) < First(products[l].url)

\* C4 as stated: over all the links of the listing that point to a detail
\* page, one record per distinct normalized URL with the title of the first
\* occurrence of that URL in the listing.
C4_AnyLinks ==
    (entry = "parse_product_list" /\ pc = "returned") =>
        C4_OnePerUrl(SelectSeq(listing, IsProductLink))

\* C4 amended: over the detail-page links whose visible text begins with
\* the refurbished marker, one record per distinct normalized URL with the
\* title of the first such link, in first-seen order.
C4_RefurbLinks ==
    (entry = "parse_product_list" /\ pc = "returned") =>
        C4_OnePerUrl(SelectSeq(listing,
            LAMBDA n : IsProductLink(n) /\ IsRefurbTitle(n.text)))

\* Two refurbished links to the same page, absolute with a query string
\* first and relative second, with different titles: one record, first title.
C4_Witness ==
    /\ entry = "parse_product_list" /\ pc = "returned"
    /\ Len(listing) = 2
    /\ listing[1].href = <<Origin, "/shop/product/A/a", "?", "fnode=1">>
    /\ listing[2].href = <<"/shop/product/A/a">>
    /\ listing[1].text = TitleMini
    /\ listing[2].text = TitleAir
    /\ products = <<[title |-> TitleMini,
                     url |-> <<Origin, "/shop/product/A/a">>]>>

(***************************************************************************)
(* Page text.  The text of a detail page is a sequence of tokens, each a   *)
(* sequence of strings: a keyword is <<k>>, a number run is the sequence   *)
(* of its characters.  Keywords: "or" is the character before RMB in the   *)
(* first price pattern, "unified_memory", "ssd", "released_in" and "year"  *)
(* are the literals of the memory, storage and year patterns.              *)
(***************************************************************************)
Digits == {"0", "1", "2", "3", "4", "5", "6", "7", "8", "9"}

Kw(k) == <<k>>

\* [\d,]+ : a non-empty run of digits and commas.
IsRun(t) == t # <<>> /\ \A i \in 1..Len(t) : t[i] \in Digits \cup {","}

\* \d+ : a non-empty run of digits.
IsDigits(t) == t # <<>> /\ \A i \in 1..Len(t) : t[i] \in Digits

Min(S) == CHOOSE m \in S : \A n \in S : m <= n

\* The longest suffix of a run that holds digits only: what (\d+) captures
\* when the pattern goes on right after the run.
RECURSIVE DigitSuffix(_)
DigitSuffix(t) ==
    IF t = <<>> \/ t[Len(t)] \notin Digits THEN <<>>
    ELSE Append(DigitSuffix(SubSeq(t, 1, Len(t) - 1)), t[Len(t)])

\* Line 81: re.search of the pattern "or RMB <run>"; the captured run of
\* the leftmost match, or None.
search_or_rmb(text) ==
    LET I == { i \in 1..(Len(text) - 2) :
                 text[i] = Kw("or") /\ text[i+1] = Kw("RMB") /\ IsRun(text[i+2]) }
    IN  IF I = {} THEN None ELSE Some(text[Min(I) + 2])

\* Line 84: re.search of the pattern "RMB <run>".
search_rmb(text) ==
    LET I == { i \in 1..(Len(text) - 1) :
                 text[i] = Kw("RMB") /\ IsRun(text[i+1]) }
    IN  IF I = {} THEN None ELSE Some(text[Min(I) + 1])

\* Lines 81-84 with the two patterns tried in the other order.
price_match_bare_first(text) ==
    IF search_rmb(text) # None THEN search_rmb(text) ELSE search_or_rmb(text)

\* Lines 81-84: the first pattern, and the bare one only when it fails.
price_match(text) ==
    IF search_or_rmb(text) # None THEN search_or_rmb(text) ELSE search_rmb(text)

\* Line 87: str.replace(',', '').
strip_commas(run) == SelectSeq(run, LAMBDA c : c # ",")

DigitVal(c) ==
    CASE c = "0" -> 0 [] c = "1" -> 1 [] c = "2" -> 2 [] c = "3" -> 3
      [] c = "4" -> 4 [] c = "5" -> 5 [] c = "6" -> 6 [] c = "7" -> 7
      [] c = "8" -> 8 [] c = "9" -> 9

\* Line 89: int() of a string of digits; the empty string raises ValueError,
\* modelled as None.
RECURSIVE IntOfDigits(_)
IntOfDigits(d) ==
    IF d = <<>> THEN 0
    ELSE 10 * IntOfDigits(SubSeq(d, 1, Len(d) - 1)) + DigitVal(d[Len(d)])

int(price_str) == IF price_str = <<>> THEN None ELSE Some(IntOfDigits(price_str))

\* Lines 98-102: "<digits> GB unified_memory"; the value is the digits and GB.
memory_of(text) ==
    LET I == { i \in 1..(Len(text) - 2) :
                 /\ IsRun(text[i]) /\ DigitSuffix(text[i]) # <<>>
                 /\ text[i+1] = Kw("GB") /\ text[i+2] = Kw("unified_memory") }
    IN  IF I = {} THEN <<>> ELSE DigitSuffix(text[Min(I)]) \o <<"GB">>

\* Lines 105-109: "<digits> (GB|TB) ssd"; the value is the digits and the unit.
storage_of(text) ==
    LET I == { i \in 1..(Len(text) - 2) :
                 /\ IsRun(text[i]) /\ DigitSuffix(text[i]) # <<>>
                 /\ text[i+1] \in {Kw("GB"), Kw("TB")} /\ text[i+2] = Kw("ssd") }
    IN  IF I = {} THEN <<>> ELSE DigitSuffix(text[Min(I)]) \o text[Min(I) + 1]

\* Lines 112-116: "released_in <4 digits> year"; the value is the 4 digits.
release_year_of(text) ==
    LET I == { i \in 1..(Len(text) - 2) :
                 /\ text[i] = Kw("released_in")
                 /\ IsDigits(text[i+1]) /\ Len(text[i+1]) = 4
                 /\ text[i+2] = Kw("year") }
    IN  IF I = {} THEN <<>> ELSE text[Min(I) + 1]

\* dict item assignment: product[key] = value.
SetField(product, key, value) ==
    [k \in DOMAIN product \cup {key} |-> IF k = key THEN value ELSE product[k]]

\* dict.get(key, default).
GetField(product, key, default) ==
    IF key \in DOMAIN product THEN product[key] ELSE default

\* Lines 97-116 with the three fields left out when their pattern fails.
secondary_fields_skip_missing(product, text) ==
    LET p1 == IF memory_of(text) # <<>>
              THEN SetField(product, "memory", memory_of(text)) ELSE product
        p2 == IF storage_of(text) # <<>>
              THEN SetField(p1, "storage", storage_of(text)) ELSE p1
    IN  IF release_year_of(text) # <<>>
        THEN SetField(p2, "release_year", release_year_of(text)) ELSE p2

\* Lines 97-116: memory, storage and release_year are always assigned, the
\* empty string when the pattern does not match.
secondary_fields(product, text) ==
    SetField(SetField(SetField(product, "memory", memory_of(text)),
                      "storage", storage_of(text)),
             "release_year", release_year_of(text))

\* Lines 86-95 as a zero-fill: a page without a parseable price is kept
\* with price 0.
parse_price_zero_fill(text) ==
    IF price_match(text) = None \/ int(strip_commas(price_match(text)[1])) = None
    THEN Some(0)
    ELSE int(strip_commas(price_match(text)[1]))

\* Lines 81-95: the price of the page text, or None when no pattern matches
\* (line 95) or int() raises ValueError (line 92).
parse_price(text) ==
    IF price_match(text) = None THEN None
    ELSE int(strip_commas(price_match(text)[1]))

\* Lines 80-116: the record with its four detail fields set, or None when
\* the price is missing or unparseable (the record is then left as it was).
detail_fields(product, text) ==
    IF parse_price(text) = None THEN None
    ELSE Some(secondary_fields(SetField(product, "price", parse_price(text)[1]),
                               text))

\* Lines 80-116 with the secondary fields written before the price is
\* looked at: a record without a price is left with three new fields.
record_after_eager(product, text) ==
    IF parse_price(text) = None THEN secondary_fields(product, text)
    ELSE detail_fields(product, text)[1]

\* Lines 80-116: the caller's record as the lines leave it.  The first
\* assignment is the price at line 89, after every return of None.
record_after(product, text) ==
    IF detail_fields(product, text) = None THEN product
    ELSE detail_fields(product, text)[1]

(***************************************************************************)
(* fetch_product_details(product): lines 66-123, as the frame of one task. *)
(* at: queued (submitted, no worker yet), entered (a worker runs it, at    *)
(* line 68), fetch (inside fetch_page, frame fp), parse (fetch_page has    *)
(* returned html, line 74), pace (in the sleep of line 118), done.         *)
(* ret: what the call returned ("none", or "product": the record passed    *)
(* in, the same object) and, for "none", cause: the return statement       *)
(* taken.  The record itself is products[i].                               *)
(***************************************************************************)
DetailRetry == 2

\* No fetch_page call is active.
NoFrame == fetch_page_call(<<>>, 0)

\* Line 73: fetch_page has made a step; when it has returned, its value is
\* bound to html and its frame is gone.
Fetched(task, f) ==
    IF f.at = "done"
    THEN [task EXCEPT !.at = "parse", !.html = f.result, !.fp = NoFrame]
    ELSE [task EXCEPT !.fp = f]

QueuedTask ==
    [at |-> "queued", fp |-> NoFrame, html |-> None, ret |-> "pending",
     cause |-> "", paced |-> FALSE, starts |-> 0, yielded |-> FALSE]

EnteredTask == [QueuedTask EXCEPT !.at = "entered", !.starts = 1]

N9999 == <<"9", ",", "9", "9", "9">>

PriceSegs ==
    { <<>>,
      <<Kw("or"), Kw("RMB"), N9999>>,
      <<Kw("RMB"), <<"5">>>>,
      <<Kw("RMB"), <<"5">>, Kw("or"), Kw("RMB"), N9999>>,
      <<Kw("or"), Kw("RMB"), <<"0">>>>,
      <<Kw("or"), Kw("RMB"), <<",">>, Kw("RMB"), <<"5">>>>,
      <<Kw("or"), Kw("RMB")>>,
      <<Kw("RMB"), <<"0", "0">>>> }

MemorySegs ==
    { <<>>,
      << <<"1", "6">>, Kw("GB"), Kw("unified_memory") >>,
      << <<"1", ",", "6">>, Kw("GB"), Kw("unified_memory") >>,
      << <<"1", "6">>, Kw("GB") >> }

StorageSegs ==
    { <<>>,
      << <<"5", "1", "2">>, Kw("GB"), Kw("ssd") >>,
      << <<"1">>, Kw("TB"), Kw("ssd") >> }

YearSegs ==
    { <<>>,
      << Kw("released_in"), <<"2", "0", "2", "3">>, Kw("year") >>,
      << Kw("released_in"), <<"2", "0", "2", "3", "4">>, Kw("year") >> }

\* The page texts of the single-task specification: a price part, a memory
\* part, a storage part and a year part, each possibly absent or malformed.
DetailTexts ==
    { p \o m \o s \o y :
        p \in PriceSegs, m \in MemorySegs, s \in StorageSegs, y \in YearSegs }

\* The page texts of the pipeline specifications: no price, a comma-only
\* run in the preferred pattern, price 0, a preferred-pattern price with a
\* memory line, a bare price.
PipelineTexts ==
    { <<Kw("x")>>,
      <<Kw("or"), Kw("RMB"), <<",">>, Kw("RMB"), <<"5">>>>,
      <<Kw("RMB"), <<"0">>>>,
      <<Kw("or"), Kw("RMB"), <<"5">>, <<"1", "6">>, Kw("GB"), Kw("unified_memory")>>,
      <<Kw("RMB"), <<"3">>>> }

DetailBodies ==
    IF entry = "fetch_product_details" THEN DetailTexts ELSE PipelineTexts

\* Lines 68-73: an empty or missing url returns None at once; otherwise the
\* task calls fetch_page(url, retry=2).
TaskBegin(i) ==
    /\ futures[i].at = "entered"
    /\ LET url == GetField(products[i], "url", <<>>)
       IN  futures' = [futures EXCEPT ![i] =
               IF url = <<>>
               THEN [@ EXCEPT !.at = "done", !.ret = "none", !.cause = "no_url"]
               ELSE [@ EXCEPT !.at = "fetch",
                              !.fp = fetch_page_call(url, DetailRetry)]]
    /\ UNCHANGED <<entry, pc, fp, calls, listing, products, max_workers,
                   stage, submitted, completed, progress, results, report, aggVars>>

TaskGetOk(i) ==
    /\ futures[i].at = "fetch" /\ futures[i].fp.at = "get"
    /\ \E body \in DetailBodies :
          futures' = [futures EXCEPT ![i] = Fetched(@, fetch_page_ok(@.fp, body))]
    /\ UNCHANGED <<entry, pc, fp, calls, listing, products, max_workers,
                   stage, submitted, completed, progress, results, report, aggVars>>

TaskGetError(i) ==
    /\ futures[i].at = "fetch" /\ futures[i].fp.at = "get"
    /\ \E e \in TransportErrors :
          futures' = [futures EXCEPT ![i] = Fetched(@, fetch_page_error(@.fp, e))]
    /\ UNCHANGED <<entry, pc, fp, calls, listing, products, max_workers,
                   stage, submitted, completed, progress, results, report, aggVars>>

TaskSleep(i) ==
    /\ futures[i].at = "fetch" /\ futures[i].fp.at = "sleep"
    /\ futures' = [futures EXCEPT ![i] = Fetched(@, fetch_page_sleep(@.fp))]
    /\ UNCHANGED <<entry, pc, fp, calls, listing, products, max_workers,
                   stage, submitted, completed, progress, results, report, aggVars>>

\* Lines 74-116 once fetch_page has returned: None for a failed fetch or an
\* empty body (line 75) and for a missing price (lines 92, 95); otherwise
\* the record is updated in place and the task goes on to line 118.
TaskParse(i) ==
    /\ futures[i].at = "parse"
    /\ LET html == futures[i].html
           fields == IF falsy(html) THEN None
                     ELSE detail_fields(products[i], html[1])
       IN  /\ futures' =
                 IF fields = None
                 THEN [futures EXCEPT ![i].at = "done", ![i].ret = "none",
                                      ![i].cause = IF falsy(html)
                                                   THEN "no_html" ELSE "no_price"]
                 ELSE [futures EXCEPT ![i].at = "pace"]
           /\ products' =
                 IF falsy(html) THEN products
                 ELSE [products EXCEPT ![i] = record_after(@, html[1])]
    /\ UNCHANGED <<entry, pc, fp, calls, listing, max_workers,
                   stage, submitted, completed, progress, results, report, aggVars>>

\* Lines 77-78 and 121-123: the HTML parser raises on the fetched body; the
\* except clause logs and returns None.
TaskRaise(i) ==
    /\ futures[i].at = "parse"
    /\ ~falsy(futures[i].html)
    /\ futures' = [futures EXCEPT ![i].at = "done", ![i].ret = "none",
                                  ![i].cause = "exception"]
    /\ UNCHANGED <<entry, pc, fp, calls, listing, products, max_workers,
                   stage, submitted, completed, progress, results, report, aggVars>>

\* Lines 118-119: the pacing sleep, then the record is returned.
TaskPace(i) ==
    /\ futures[i].at = "pace"
    /\ futures' = [futures EXCEPT ![i].at = "done", ![i].ret = "product",
                                  ![i].paced = TRUE]
    /\ UNCHANGED <<entry, pc, fp, calls, listing, products, max_workers,
                   stage, submitted, completed, progress, results, report, aggVars>>

Tasks == 1..Len(futures)

(***************************************************************************)
(* SpecDetail: one call fetch_product_details(product) on each product of  *)
(* DetailProducts, under every transport outcome and every page text of    *)
(* DetailTexts.                                                            *)
(***************************************************************************)
DetailProducts ==
    { [title |-> <<"refurb", "MacBook Air">>,
       url |-> <<Origin, "/shop/product/A/a">>],
      [title |-> <<"refurb", "Mac mini">>, url |-> <<>>],
      [title |-> <<"refurb", "Mac mini">>] }

InitDetail ==
    /\ entry = "fetch_product_details"
    /\ pc = "call"
    /\ calls = <<>>
    /\ fp = fetch_page_call(ListingUrl, 0)
    /\ listing = <<>>
    /\ \E p \in DetailProducts : products = <<p>>
    /\ max_workers = 0
    /\ stage = "idle"
    /\ submitted = 0
    /\ futures = <<EnteredTask>>
    /\ completed = 0
    /\ progress = <<>>
    /\ results = <<>>
    /\ report = None
    /\ AggIdle

NextDetail ==
    \/ \E i \in Tasks : TaskBegin(i)
    \/ \E i \in Tasks : TaskGetOk(i)
    \/ \E i \in Tasks : TaskGetError(i)
    \/ \E i \in Tasks : TaskSleep(i)
    \/ \E i \in Tasks : TaskParse(i)
    \/ \E i \in Tasks : TaskRaise(i)
    \/ \E i \in Tasks : TaskPace(i)

SpecDetail == InitDetail /\ [][NextDetail]_vars

(***************************************************************************)
(* process_products_parallel(products, max_workers): lines 183-205.        *)
(* The executor starts a queued task, in submission order, when fewer than *)
(* max_workers of its tasks are running; the caller submits every product  *)
(* (line 190), then takes the finished futures one by one (lines 193-202)  *)
(* and returns when all have been taken.                                   *)
(***************************************************************************)
MaxProducts == 2
MaxWorkers == 2

RunningAt == {"entered", "fetch", "parse", "pace"}

NumRunning(fs) == Cardinality({ i \in DOMAIN fs : fs[i].at \in RunningAt })

\* Line 189 with the pool width ignored: a thread per submitted task.
worker_available_unbounded(fs, mw) == NumRunning(fs) < Len(fs)

\* Line 189 with a pool that never hands a task to a worker.
worker_available_never(fs, mw) == FALSE

\* Line 189: ThreadPoolExecutor(max_workers) runs at most max_workers tasks
\* at a time.
worker_available(fs, mw) == NumRunning(fs) < mw

\* Line 199 always true: every finished future's result is appended.
keeps_any(ret) == TRUE

\* Line 199: `if result` holds for a returned record, not for None.
keeps(ret) == ret = "product"

\* Line 195: the period of the progress line.
ProgressEvery == 10

\* Line 195 with the test never true: no progress line is printed.
progress_due_never(n) == FALSE

\* Line 195: `completed % 10 == 0`.
progress_due(n) == n % ProgressEvery = 0

\* Lines 185-192: the locals of the call as it starts.
pipeline_call(ps, mw) ==
    [max_workers |-> mw,
     stage |-> IF ps = <<>> THEN "collect" ELSE "submit",
     submitted |-> 0,
     futures |-> [i \in 1..Len(ps) |-> QueuedTask],
     completed |-> 0,
     progress |-> <<>>,
     results |-> <<>>,
     report |-> None]

\* Line 190: executor.submit of the next product.
Submit ==
    /\ stage = "submit"
    /\ submitted' = submitted + 1
    /\ stage' = IF submitted + 1 = Len(products) THEN "collect" ELSE "submit"
    /\ UNCHANGED <<entry, pc, fp, calls, listing, products, max_workers,
                   futures, completed, progress, results, report, aggVars>>

\* A worker thread of the executor takes the oldest queued task.
TaskStart(i) ==
    /\ futures[i].at = "queued"
    /\ i <= submitted
    /\ \A j \in 1..(i-1) : futures[j].at # "queued"
    /\ worker_available(futures, max_workers)
    /\ futures' = [futures EXCEPT ![i].at = "entered", ![i].starts = @ + 1]
    /\ UNCHANGED <<entry, pc, fp, calls, listing, products, max_workers,
                   stage, submitted, completed, progress, results, report, aggVars>>

\* Lines 193-202: one iteration of the as_completed loop, for a finished
\* future not taken yet.  A task never raises out of fetch_product_details
\* (lines 121-123), so future.result() returns.
Collect(i) ==
    /\ stage = "collect"
    /\ futures[i].at = "done" /\ ~futures[i].yielded
    /\ completed' = completed + 1
    /\ progress' = IF progress_due(completed + 1)
                   THEN Append(progress, [completed |-> completed + 1,
                                          total |-> Len(products)])
                   ELSE progress
    /\ results' = IF keeps(futures[i].ret) THEN Append(results, i) ELSE results
    /\ futures' = [futures EXCEPT ![i].yielded = TRUE]
    /\ UNCHANGED <<entry, pc, fp, calls, listing, products, max_workers,
                   stage, submitted, report, aggVars>>

\* Lines 203-205: the loop is over, the counts are printed, results returned.
PipelineReturn ==
    /\ stage = "collect"
    /\ \A i \in Tasks : futures[i].yielded
    /\ stage' = "returned"
    /\ report' = Some([accepted |-> Len(results), total |-> Len(products)])
    /\ UNCHANGED <<entry, pc, fp, calls, listing, products, max_workers,
                   submitted, futures, completed, progress, results, aggVars>>

(***************************************************************************)
(* SpecPipe: one call process_products_parallel(products, max_workers) for *)
(* every list of at most MaxProducts candidates and every pool width up to *)
(* MaxWorkers, under every schedule of the tasks.                          *)
(***************************************************************************)
Candidates ==
    { [title |-> <<"refurb", "MacBook Air">>,
       url |-> <<Origin, "/shop/product/A/a">>],
      [title |-> <<"refurb", "Mac mini">>, url |-> <<>>] }

\* A batch long enough for one progress line: ProgressEvery - 1 candidates
\* without a url and a last one with a url.
ProgressBatch ==
    [i \in 1..ProgressEvery |->
        IF i = ProgressEvery THEN [title |-> <<"refurb", "MacBook Air">>,
                       url |-> <<Origin, "/shop/product/A/a">>]
        ELSE [title |-> <<"refurb", "Mac mini">>, url |-> <<>>]]

PipelineInputs == UNION { [1..n -> Candidates] : n \in 0..MaxProducts }

PipeCalled(inputs) ==
    /\ entry = "process_products_parallel"
    /\ pc = "call"
    /\ calls = <<>>
    /\ fp = fetch_page_call(ListingUrl, 0)
    /\ listing = <<>>
    /\ products \in inputs
    /\ \E mw \in 1..MaxWorkers :
          LET c == pipeline_call(products, mw)
          IN  /\ max_workers = c.max_workers
              /\ stage = c.stage
              /\ submitted = c.submitted
              /\ futures = c.futures
              /\ completed = c.completed
              /\ progress = c.progress
              /\ results = c.results
              /\ report = c.report
    /\ AggIdle

NextPipe ==
    \/ Submit
    \/ \E i \in Tasks : TaskStart(i)
    \/ \E i \in Tasks : TaskBegin(i)
    \/ \E i \in Tasks : TaskGetOk(i)
    \/ \E i \in Tasks : TaskGetError(i)
    \/ \E i \in Tasks : TaskSleep(i)
    \/ \E i \in Tasks : TaskParse(i)
    \/ \E i \in Tasks : TaskRaise(i)
    \/ \E i \in Tasks : TaskPace(i)
    \/ \E i \in Tasks : Collect(i)
    \/ PipelineReturn

InitPipe == PipeCalled(PipelineInputs)

SpecPipe == InitPipe /\ [][NextPipe]_vars

\* The steps of the calling thread, of the worker threads, and the return
\* of a GET that is in flight.
CallerStep == Submit \/ (\E i \in Tasks : Collect(i)) \/ PipelineReturn

WorkerStep ==
    \E i \in Tasks :
        \/ TaskStart(i) \/ TaskBegin(i) \/ TaskSleep(i)
        \/ TaskParse(i) \/ TaskRaise(i) \/ TaskPace(i)

GetReturns == \E i \in Tasks : TaskGetOk(i) \/ TaskGetError(i)

\* SpecPipeFair: the call on the lists of PipelineInputs that hold at most
\* two candidates with a url, with threads that keep running while they can
\* (the interpreter schedules every runnable thread, sleeps end) and GETs
\* that return: requests.get is called with timeout=30 (line 26).
FairInputs ==
    { ps \in PipelineInputs :
        Cardinality({ i \in DOMAIN ps : ps[i].url # <<>> }) <= 2 }

InitPipeFair == PipeCalled(FairInputs)

SpecPipeFair ==
    /\ InitPipeFair /\ [][NextPipe]_vars
    /\ WF_vars(CallerStep) /\ WF_vars(WorkerStep) /\ WF_vars(GetReturns)

\* SpecProgress: the same call on the one batch ProgressBatch.
InitProgress == PipeCalled({ProgressBatch})

SpecProgress == InitProgress /\ [][NextPipe]_vars

(***************************************************************************)
(* extract_basic_details(title): lines 126-180.  A title is a sequence of  *)
(* tokens (strings): product names, numbers, and the keywords "inch",      *)
(* "Apple", "cpu_cores", "gpu_cores" and the colour names standing for the *)
(* literals of the patterns.  Field values are token sequences; the empty  *)
(* string is <<>>.                                                         *)
(***************************************************************************)
\* `literal in title`: a token is the literal, or holds it as a substring
\* (the colour literal of "gold" ends the one of "rose_gold").
Contains(title, literal) ==
    \E i \in 1..Len(title) :
        \/ title[i] = literal
        \/ literal = "gold" /\ title[i] = "rose_gold"

\* \d+(?:\.\d+)? and \d+ on a number token.
Numbers == {"8", "10", "13", "13.6"}
IntegerTail(t) == IF t = "13.6" THEN "6" ELSE t

ChipNames == {"M1", "M2", "M3"}
ChipTiers == {"Pro", "Max", "Ultra"}

\* Line 174: the palette, in the order it is searched.
Colors == <<"space_gray", "space_black", "silver", "starlight", "midnight",
            "sky_blue", "gold", "rose_gold">>

\* Lines 138-151.
model_of(title) ==
    IF Contains(title, "MacBook Air") THEN <<"MacBook Air">>
    ELSE IF Contains(title, "MacBook Pro") THEN <<"MacBook Pro">>
    ELSE IF Contains(title, "Mac mini") THEN <<"Mac mini">>
    ELSE IF Contains(title, "Mac Studio") THEN <<"Mac Studio">>
    ELSE IF Contains(title, "Mac Pro") THEN <<"Mac Pro">>
    ELSE IF Contains(title, "iMac") THEN <<"iMac">>
    ELSE IF Contains(title, "display") \/ Contains(title, "Display")
         THEN <<"display">>
    ELSE <<>>

\* Lines 154-156.
screen_size_of(title) ==
    LET I == { i \in 1..(Len(title) - 1) :
                 title[i] \in Numbers /\ title[i+1] = "inch" }
    IN  IF I = {} THEN <<>> ELSE <<title[Min(I)], "inch">>

\* Lines 159-161.
chip_of(title) ==
    LET I == { i \in 1..(Len(title) - 1) :
                 title[i] = "Apple" /\ title[i+1] \in ChipNames }
        i == Min(I)
    IN  IF I = {} THEN <<>>
        ELSE IF i + 2 <= Len(title) /\ title[i+2] \in ChipTiers
             THEN <<title[i+1], title[i+2]>>
             ELSE <<title[i+1]>>

\* Lines 164-171: "<digits> marker" gives the digits and the cores suffix.
cores_of(title, marker) ==
    LET I == { i \in 1..(Len(title) - 1) :
                 title[i] \in Numbers /\ title[i+1] = marker }
    IN  IF I = {} THEN <<>> ELSE <<IntegerTail(title[Min(I)]), "cores">>

\* Lines 174-178.
color_of(title) ==
    LET I == { i \in 1..Len(Colors) : Contains(title, Colors[i]) }
    IN  IF I = {} THEN <<>> ELSE <<Colors[Min(I)]>>

extract_basic_details(title) ==
    [model |-> model_of(title),
     screen_size |-> screen_size_of(title),
     chip |-> chip_of(title),
     cpu_cores |-> cores_of(title, "cpu_cores"),
     gpu_cores |-> cores_of(title, "gpu_cores"),
     color |-> color_of(title)]

TitleFields == {"model", "screen_size", "chip", "cpu_cores", "gpu_cores", "color"}

(***************************************************************************)
(* create_dataframe(products): lines 208-242.  The table is a sequence of  *)
(* rows, a row a record over the twelve columns; a cell no record supplied *)
(* in a column some record has is pandas' missing value NaN.               *)
(***************************************************************************)
NaN == <<"NaN">>

\* Lines 225-226 and 233-234.
required_columns ==
    <<"model", "screen_size", "chip", "cpu_cores", "gpu_cores", "color",
      "memory", "storage", "release_year", "price", "title", "url">>

Range(f) == { f[i] : i \in DOMAIN f }

\* Lines 217-219 with the guard dropped: the title value always wins.
fill_overwrite(product) ==
    LET basic_details == extract_basic_details(product.title)
    IN  [k \in DOMAIN product \cup TitleFields |->
            IF k \in TitleFields THEN basic_details[k] ELSE product[k]]

\* Lines 215-219: a title-derived value is written where the record has no
\* such key or holds an empty value under it.
fill(product) ==
    LET basic_details == extract_basic_details(product.title)
    IN  [k \in DOMAIN product \cup TitleFields |->
            IF k \in TitleFields /\ (k \notin DOMAIN product \/ product[k] = <<>>)
            THEN basic_details[k] ELSE product[k]]

\* Lines 222-236: one row per record; a column no record has is filled
\* with '' (lines 228-230), a cell missing in a column that exists is NaN.
frame_rows(ps) ==
    LET columns == UNION { DOMAIN ps[i] : i \in 1..Len(ps) }
    IN  [i \in 1..Len(ps) |->
            [c \in Range(required_columns) |->
                IF c \in DOMAIN ps[i] THEN ps[i][c]
                ELSE IF c \in columns THEN NaN ELSE <<>>]]

\* The orders (sequences of row positions) sort_values may leave: every
\* permutation.
any_orders(rows) ==
    { o \in [1..Len(rows) -> 1..Len(rows)] :
        \A i, j \in 1..Len(rows) : i # j => o[i] # o[j] }

\* Lines 239-240: sort_values('price') with the default, unstable sort
\* kind: any permutation that is ascending by price; the order among equal
\* prices is not determined.
sorted_orders(rows) ==
    { o \in [1..Len(rows) -> 1..Len(rows)] :
        /\ \A i, j \in 1..Len(rows) : i # j => o[i] # o[j]
        /\ \A i \in 1..(Len(rows) - 1) : rows[o[i]].price <= rows[o[i+1]].price }

\* Lines 213-242: the records after the in-place fill, and the tables the
\* call may return.
filled(ps) == [i \in 1..Len(ps) |-> fill(ps[i])]

\* Lines 208-242 with the first row of the sorted frame lost.
create_dataframe_drop_first(ps) ==
    IF ps = <<>> THEN { <<>> }
    ELSE LET rows == frame_rows(filled(ps))
         IN  { [i \in 1..(Len(rows) - 1) |-> rows[o[i + 1]]] :
                 o \in sorted_orders(rows) }

create_dataframe(ps) ==
    IF ps = <<>> THEN { <<>> }
    ELSE LET rows == frame_rows(filled(ps))
         IN  { [i \in 1..Len(rows) |-> rows[o[i]]] : o \in sorted_orders(rows) }

(***************************************************************************)
(* SpecAgg: one call create_dataframe(products) on every list of at most   *)
(* MaxRecords records of AggRecords: records as the detail pipeline leaves *)
(* them, records that already hold title fields (empty or not), and        *)
(* records without the memory key; two titles, two prices.                 *)
(***************************************************************************)
MaxRecords == 3

EnrichedRecord(title, price) ==
    [title |-> title,
     url |-> <<Origin, IF title = TitleAir THEN "/shop/product/A/a"
                       ELSE "/shop/product/B/a">>,
     price |-> price, memory |-> <<"1", "6", "GB">>, storage |-> <<>>,
     release_year |-> <<"2", "0", "2", "3">>]

AggRecords ==
    UNION { { EnrichedRecord(t, pr),
              [k \in DOMAIN EnrichedRecord(t, pr) \cup {"model", "chip"} |->
                  IF k = "model" THEN <<"iMac">>
                  ELSE IF k = "chip" THEN <<>>
                  ELSE EnrichedRecord(t, pr)[k]],
              [k \in DOMAIN EnrichedRecord(t, pr) \ {"memory"} |->
                  EnrichedRecord(t, pr)[k]] } :
            t \in {TitleAir, TitleMini}, pr \in {3, 5} }

AggInputs == UNION { [1..n -> AggRecords] : n \in 0..MaxRecords }

InitAgg ==
    /\ entry = "create_dataframe"
    /\ pc = "call"
    /\ calls = <<>>
    /\ fp = fetch_page_call(ListingUrl, 0)
    /\ listing = <<>>
    /\ products \in AggInputs
    /\ PipeIdle
    /\ given = products
    /\ df = <<>>
    /\ saved = None

\* Lines 208-242 on the whole list products.
Aggregate ==
    /\ entry = "create_dataframe" /\ pc = "call"
    /\ df' \in create_dataframe(products)
    /\ products' = IF products = <<>> THEN products ELSE filled(products)
    /\ pc' = "returned"
    /\ UNCHANGED <<entry, fp, calls, listing, pipeVars, given, saved>>

NextAgg == Aggregate

SpecAgg == InitAgg /\ [][NextAgg]_vars

\* C7: a returned table with at least two rows is ascending by price.
C7_SortedByPrice ==
    (entry = "create_dataframe" /\ pc = "returned" /\ Len(df) >= 2) =>
        \A i \in 1..(Len(df) - 1) : df[i].price <= df[i+1].price

\* Three records given with prices 5, 3, 5: the table holds 3, 5, 5.
C7_Witness ==
    /\ entry = "create_dataframe" /\ pc = "returned"
    /\ Len(given) = 3
    /\ given[1].price = 5 /\ given[2].price = 3 /\ given[3].price = 5
    /\ Len(df) = 3
    /\ df[1].price = 3 /\ df[2].price = 5 /\ df[3].price = 5

\* C8: create_dataframe leaves a title-derivable field that the record
\* holds non-empty as it was, and writes the title-derived value exactly
\* where the field was absent or empty.
C8_FillPrecedence ==
    (entry = "create_dataframe" /\ pc = "returned") =>
        \A i \in 1..Len(given) : \A k \in TitleFields :
            IF k \in DOMAIN given[i] /\ given[i][k] # <<>>
            THEN products[i][k] = given[i][k]
            ELSE products[i][k] = extract_basic_details(given[i].title)[k]

\* A record given with model "iMac" and an empty chip under the MacBook
\* Air title: model stays "iMac", chip is filled with "M2" from the title.
C8_Witness ==
    /\ entry = "create_dataframe" /\ pc = "returned"
    /\ Len(given) >= 1
    /\ given[1].title = TitleAir
    /\ "model" \in DOMAIN given[1] /\ given[1].model = <<"iMac">>
    /\ given[1].chip = <<>>
    /\ products[1].model = <<"iMac">>
    /\ products[1].chip = <<"M2">>
    /\ products[1].color = <<"space_gray">>

\* The table is the rows of the filled records in the order o.
TableInOrder(o) ==
    LET rows == frame_rows(products)
    IN  df = [i \in 1..Len(rows) |-> rows[o[i]]]

\* C11: for a non-empty input every row of the returned table has exactly
\* the twelve canonical columns, and a cell holds the value its record
\* supplies (after the fill) or, when the record supplies none, the empty
\* string: no other missing-value marker appears, also when only some of
\* the records lack the field.
C11_CanonicalColumns ==
    (entry = "create_dataframe" /\ pc = "returned" /\ given # <<>>) =>
        /\ \A r \in 1..Len(df) : DOMAIN df[r] = Range(required_columns)
        /\ \E o \in any_orders(products) :
              /\ TableInOrder(o)
              /\ \A r \in 1..Len(df) : \A c \in Range(required_columns) :
                    c \notin DOMAIN products[o[r]] => df[r][c] = <<>>

\* C12: the table is the stable sort of the input: ascending by price, two
\* records of equal price in their input order; rows are positions 1..n of
\* the table (reset_index).
C12_StableSort ==
    (entry = "create_dataframe" /\ pc = "returned" /\ given # <<>>) =>
        \E o \in sorted_orders(frame_rows(products)) :
            /\ TableInOrder(o)
            /\ \A i, j \in 1..Len(df) :
                  (i < j /\ df[i].price = df[j].price) => o[i] < o[j]

(***************************************************************************)
(* main(): lines 293-372.  pc: fetch_listing (inside fetch_page, line      *)
(* 302), parsed (line 311), pipeline (inside process_products_parallel,    *)
(* line 318), aggregated (line 325 done), done (line 372), and the three   *)
(* early returns of lines 306, 315 and 322.                                *)
(***************************************************************************)
ListingRetry == 3
DefaultWorkers == 10

\* Lines 313, 320 with the test never true.
is_empty_never(x) == FALSE

\* Lines 313, 320: `if not products` for a list.
is_empty(x) == x = <<>>

InitMain ==
    /\ entry = "main"
    /\ pc = "fetch_listing"
    /\ calls = <<"fetch_page">>
    /\ fp = fetch_page_call(ListingUrl, ListingRetry)
    /\ listing = <<>>
    /\ products = <<>>
    /\ PipeIdle
    /\ AggIdle

\* Lines 304-306: no page content, the run stops.
MainNoPage ==
    /\ entry = "main" /\ pc = "fetch_listing" /\ fp.at = "done"
    /\ falsy(fp.result)
    /\ pc' = "stopped_no_page"
    /\ UNCHANGED <<entry, fp, calls, listing, products, pipeVars, aggVars>>

\* Lines 308-311: the listing is parsed.
MainParse ==
    /\ entry = "main" /\ pc = "fetch_listing" /\ fp.at = "done"
    /\ ~falsy(fp.result)
    /\ listing' = fp.result[1]
    /\ products' = parse_product_list(fp.result[1])
    /\ calls' = Append(calls, "parse_product_list")
    /\ pc' = "parsed"
    /\ UNCHANGED <<entry, fp, pipeVars, aggVars>>

\* Lines 313-315: no candidate, the run stops.
MainNoProducts ==
    /\ entry = "main" /\ pc = "parsed"
    /\ is_empty(products)
    /\ pc' = "stopped_no_products"
    /\ UNCHANGED <<entry, fp, calls, listing, products, pipeVars, aggVars>>

\* Line 318: process_products_parallel(products, max_workers=10) is called.
MainPipeline ==
    /\ entry = "main" /\ pc = "parsed"
    /\ ~is_empty(products)
    /\ pc' = "pipeline"
    /\ calls' = Append(calls, "process_products_parallel")
    /\ LET c == pipeline_call(products, DefaultWorkers)
       IN  /\ max_workers' = c.max_workers
           /\ stage' = c.stage
           /\ submitted' = c.submitted
           /\ futures' = c.futures
           /\ completed' = c.completed
           /\ progress' = c.progress
           /\ results' = c.results
           /\ report' = c.report
    /\ UNCHANGED <<entry, fp, listing, products, aggVars>>

\* Lines 320-322: no accepted record, the run stops.
MainNoDetails ==
    /\ entry = "main" /\ pc = "pipeline" /\ stage = "returned"
    /\ is_empty(results)
    /\ pc' = "stopped_no_details"
    /\ UNCHANGED <<entry, fp, calls, listing, products, pipeVars, aggVars>>

\* Lines 324-325: create_dataframe on the returned records, which are the
\* candidate objects themselves and are filled in place.
MainAggregate ==
    /\ entry = "main" /\ pc = "pipeline" /\ stage = "returned"
    /\ ~is_empty(results)
    /\ LET ps == [k \in 1..Len(results) |-> products[results[k]]]
       IN  /\ given' = ps
           /\ df' \in create_dataframe(ps)
    /\ products' = [i \in 1..Len(products) |->
                       IF i \in Range(results) THEN fill(products[i])
                       ELSE products[i]]
    /\ calls' = Append(calls, "create_dataframe")
    /\ pc' = "aggregated"
    /\ UNCHANGED <<entry, fp, listing, pipeVars, saved>>

\* Lines 327-372: the preview and the statistics are printed and the table
\* is handed to save_results.
MainSave ==
    /\ entry = "main" /\ pc = "aggregated"
    /\ saved' = Some(df)
    /\ calls' = Append(calls, "save_results")
    /\ pc' = "done"
    /\ UNCHANGED <<entry, fp, listing, products, pipeVars, given, df>>

Next ==
    \/ FetchGetOk
    \/ FetchGetError
    \/ FetchSleep
    \/ MainNoPage
    \/ MainParse
    \/ MainNoProducts
    \/ MainPipeline
    \/ Submit
    \/ \E i \in Tasks : TaskStart(i)
    \/ \E i \in Tasks : TaskBegin(i)
    \/ \E i \in Tasks : TaskGetOk(i)
    \/ \E i \in Tasks : TaskGetError(i)
    \/ \E i \in Tasks : TaskSleep(i)
    \/ \E i \in Tasks : TaskParse(i)
    \/ \E i \in Tasks : TaskRaise(i)
    \/ \E i \in Tasks : TaskPace(i)
    \/ \E i \in Tasks : Collect(i)
    \/ PipelineReturn
    \/ MainNoDetails
    \/ MainAggregate
    \/ MainSave

Spec == InitMain /\ [][Next]_vars

(***************************************************************************)
(* What a page text holds, read off the tokens without the code's search   *)
(* order: used to state the claims about extraction.                       *)
(***************************************************************************)
OrPriceAt(text, i) ==
    /\ i + 2 <= Len(text)
    /\ text[i] = Kw("or") /\ text[i+1] = Kw("RMB") /\ IsRun(text[i+2])

BarePriceAt(text, i) ==
    i + 1 <= Len(text) /\ text[i] = Kw("RMB") /\ IsRun(text[i+1])

HasDigit(run) == \E j \in 1..Len(run) : run[j] \in Digits

\* The text yields a parseable price: the first "or RMB <run>" occurrence,
\* or without any such occurrence the first "RMB <run>", holds a digit.
ParseablePrice(text) ==
    \/ \E i \in 1..Len(text) :
          /\ OrPriceAt(text, i) /\ HasDigit(text[i+2])
          /\ \A j \in 1..(i-1) : ~OrPriceAt(text, j)
    \/ /\ \A i \in 1..Len(text) : ~OrPriceAt(text, i)
       /\ \E i \in 1..Len(text) :
             /\ BarePriceAt(text, i) /\ HasDigit(text[i+1])
             /\ \A j \in 1..(i-1) : ~BarePriceAt(text, j)

MemoryPatternIn(text) ==
    \E i \in 1..(Len(text) - 2) :
        /\ IsRun(text[i]) /\ text[i][Len(text[i])] \in Digits
        /\ text[i+1] = Kw("GB") /\ text[i+2] = Kw("unified_memory")

StoragePatternIn(text) ==
    \E i \in 1..(Len(text) - 2) :
        /\ IsRun(text[i]) /\ text[i][Len(text[i])] \in Digits
        /\ text[i+1] \in {Kw("GB"), Kw("TB")} /\ text[i+2] = Kw("ssd")

YearPatternIn(text) ==
    \E i \in 1..(Len(text) - 2) :
        /\ text[i] = Kw("released_in")
        /\ Len(text[i+1]) = 4 /\ \A j \in 1..4 : text[i+1][j] \in Digits
        /\ text[i+2] = Kw("year")

\* The text task i extracted its fields from: the fetched body, when the
\* fetch succeeded and the parser did not raise.
TaskHasText(i) ==
    /\ futures[i].html # None
    /\ futures[i].html[1] # <<>>
    /\ futures[i].cause # "exception"

TaskText(i) == futures[i].html[1]

\* C10: a finished task whose fetch succeeded with a text that yields a
\* parseable price returned its record, whatever the text says about
\* memory, storage and year; the record holds all three fields, and each
\* is the empty string exactly when its pattern does not occur in the text.
C10_SecondaryGapsTolerated ==
    \A i \in Tasks :
        (futures[i].at = "done" /\ TaskHasText(i) /\ ParseablePrice(TaskText(i))) =>
            /\ futures[i].ret = "product"
            /\ {"memory", "storage", "release_year"} \subseteq DOMAIN products[i]
            /\ (products[i].memory = <<>>) <=> ~MemoryPatternIn(TaskText(i))
            /\ (products[i].storage = <<>>) <=> ~StoragePatternIn(TaskText(i))
            /\ (products[i].release_year = <<>>) <=> ~YearPatternIn(TaskText(i))

\* An accepted record whose text holds a price, a memory pattern broken by
\* a missing marker, no storage and a five-digit year: memory, storage and
\* release_year are all the empty string.
C10_Witness ==
    /\ entry = "fetch_product_details"
    /\ futures[1].at = "done" /\ futures[1].ret = "product"
    /\ TaskText(1) = <<Kw("or"), Kw("RMB"), N9999, <<"1", "6">>, Kw("GB"),
                       Kw("released_in"), <<"2", "0", "2", "3", "4">>, Kw("year")>>
    /\ products[1].price = 9999
    /\ products[1].memory = <<>>
    /\ products[1].storage = <<>>
    /\ products[1].release_year = <<>>

\* The positions of the "or RMB <run>" and of the "RMB <run>" occurrences.
OrPrices(text) == { j \in 1..Len(text) : OrPriceAt(text, j) }

BarePrices(text) == { j \in 1..Len(text) : BarePriceAt(text, j) }

\* The task returned its record with this run, commas removed, as price.
PricedBy(i, run) ==
    /\ futures[i].ret = "product"
    /\ "price" \in DOMAIN products[i]
    /\ products[i].price = IntOfDigits(strip_commas(run))

\* C17 as stated: when the text holds an "or RMB <run>" occurrence the price
\* is the integer of the first one, commas removed, whatever bare
\* "RMB <run>" comes earlier; without any, the first bare occurrence gives
\* the price.
C17_OrRmbPreferred ==
    entry = "fetch_product_details" =>
        \A i \in Tasks :
            (futures[i].at = "done" /\ TaskHasText(i)) =>
                LET text == TaskText(i)
                IN  /\ OrPrices(text) # {} =>
                          PricedBy(i, text[Min(OrPrices(text)) + 2])
                    /\ (OrPrices(text) = {} /\ BarePrices(text) # {}) =>
                          PricedBy(i, text[Min(BarePrices(text)) + 1])

\* C17 amended: the first "or RMB <run>" occurrence decides, and without
\* any the first bare "RMB <run>": when the run holds a digit the price is
\* its integer, commas removed; when it holds commas only the candidate is
\* rejected, whatever other occurrence follows.
C17_FirstRunDecides ==
    entry = "fetch_product_details" =>
        \A i \in Tasks :
            (futures[i].at = "done" /\ TaskHasText(i)) =>
                LET text == TaskText(i)
                    run == IF OrPrices(text) # {}
                           THEN text[Min(OrPrices(text)) + 2]
                           ELSE text[Min(BarePrices(text)) + 1]
                IN  (OrPrices(text) # {} \/ BarePrices(text) # {}) =>
                        IF HasDigit(run) THEN PricedBy(i, run)
                        ELSE futures[i].ret = "none" /\ futures[i].cause = "no_price"

\* A text with a bare "RMB 5" before "or RMB 9,999": the price is 9999.
C17_Witness ==
    /\ entry = "fetch_product_details"
    /\ futures[1].at = "done" /\ futures[1].ret = "product"
    /\ TaskText(1) = <<Kw("RMB"), <<"5">>, Kw("or"), Kw("RMB"), N9999>>
    /\ products[1].price = 9999

\* C13: a finished task whose fetch returned a page has gone through the
\* pacing delay of line 118, whether or not the page yielded a price; a
\* finished task whose fetch failed has not.
C13_PacedAfterFetch ==
    entry = "fetch_product_details" =>
        \A i \in Tasks :
            futures[i].at = "done" =>
                /\ ~falsy(futures[i].html) => futures[i].paced
                /\ futures[i].html = None => ~futures[i].paced

\* C9: at every moment of process_products_parallel the tasks that have
\* started and not finished number at most max_workers.
C9_BoundedConcurrency ==
    entry = "process_products_parallel" =>
        Cardinality({ i \in Tasks :
            futures[i].starts > 0 /\ futures[i].at # "done" }) <= max_workers

\* Two submitted tasks on a pool of width one: the first is inside its
\* fetch, the second still waits for the worker.
C9_Witness ==
    /\ entry = "process_products_parallel"
    /\ max_workers = 1 /\ Len(futures) = 2 /\ submitted = 2
    /\ futures[1].at = "fetch" /\ futures[2].at = "queued"

\* C5: no item failure aborts the batch.  Until it has returned the call
\* can always take a step; once it has returned, every one of the N tasks
\* ran exactly once and finished, every future was taken, and the accepted
\* count reported is the number of tasks that returned a record, the other
\* tasks being the rejected ones (accepted + rejected = N).
C5_FailuresIsolated ==
    entry = "process_products_parallel" =>
        /\ stage # "returned" => ENABLED NextPipe
        /\ stage = "returned" =>
              LET N == Len(products)
                  Accepted == { i \in Tasks : futures[i].ret = "product" }
                  Rejected == { i \in Tasks : futures[i].ret = "none" }
              IN  /\ Len(futures) = N
                  /\ \A i \in Tasks :
                        /\ futures[i].at = "done"
                        /\ futures[i].starts = 1
                        /\ futures[i].yielded
                  /\ report = Some([accepted |-> Cardinality(Accepted),
                                    total |-> N])
                  /\ Len(results) = Cardinality(Accepted)
                  /\ Cardinality(Accepted) + Cardinality(Rejected) = N
                  /\ completed = N

\* A returned batch of two: one task hit an exception after its fetch, the
\* other failed both GETs; nothing accepted, 0 of 2 reported.
C5_Witness ==
    /\ entry = "process_products_parallel" /\ stage = "returned"
    /\ Len(products) = 2
    /\ futures[1].cause = "exception"
    /\ futures[2].cause = "no_html" /\ futures[2].html = None
    /\ report = Some([accepted |-> 0, total |-> 2])

\* C14: the completion counter is the number of finished tasks the loop has
\* taken, each once, whatever the order of completion; it is the number of
\* submitted candidates when the call returns; and the progress lines
\* printed are exactly one per positive multiple of 10 the counter has
\* reached, each carrying that count and the total.
C14_CounterSafe ==
    entry = "process_products_parallel" =>
        /\ completed = Cardinality({ i \in Tasks : futures[i].yielded })
        /\ \A i \in Tasks : futures[i].yielded => futures[i].at = "done"
        /\ stage = "returned" =>
              completed = Len(products) /\ completed = submitted
        /\ Len(progress) = completed \div 10
        /\ \A k \in 1..Len(progress) :
              progress[k] = [completed |-> 10 * k, total |-> Len(products)]

\* The batch of ten has returned: the counter is 10, the one record with a
\* url was accepted, and one progress line 10/10 was printed.
C14_Witness ==
    /\ entry = "process_products_parallel" /\ stage = "returned"
    /\ Len(products) = 10 /\ completed = 10
    /\ results = <<10>>
    /\ progress = <<[completed |-> 10, total |-> 10]>>

\* C16: every call of process_products_parallel returns, with every
\* submitted task finished: no task waits for ever, on a worker or on
\* another task.
C16_Terminates ==
    (entry = "process_products_parallel") ~>
        (/\ stage = "returned"
         /\ Len(futures) = Len(products)
         /\ \A i \in Tasks : futures[i].at = "done")

\* A returned call on two candidates with urls on a pool of width one: the
\* second task waited for the worker, then failed both of its GETs.
C16_Witness ==
    /\ entry = "process_products_parallel" /\ stage = "returned"
    /\ max_workers = 1 /\ Len(products) = 2
    /\ futures[1].ret = "product"
    /\ futures[2].cause = "no_html" /\ futures[2].html = None
    /\ products[2].url # <<>>

\* C18: the record of a task that returned None is a candidate as it was
\* submitted, title and url only: no price, memory, storage or release_year
\* was added before the failure.
C18_RejectedUnmodified ==
    entry = "process_products_parallel" =>
        \A i \in Tasks :
            (futures[i].at = "done" /\ futures[i].ret = "none") =>
                /\ products[i] \in Candidates
                /\ DOMAIN products[i] = {"title", "url"}

\* A returned batch with the three kinds of rejection of the claim: on a
\* comma-only price, on an empty url, and (in another batch) on a failed
\* fetch; here the first two, both records as submitted.
C18_Witness ==
    /\ entry = "process_products_parallel" /\ stage = "returned"
    /\ Len(products) = 2
    /\ futures[1].cause = "no_price"
    /\ futures[1].html = Some(<<Kw("or"), Kw("RMB"), <<",">>, Kw("RMB"), <<"5">>>>)
    /\ futures[2].cause = "no_url"
    /\ products[1] = [title |-> <<"refurb", "MacBook Air">>,
                      url |-> <<Origin, "/shop/product/A/a">>]
    /\ results = <<>>

\* C2: every record the detail pipeline returns has a price, and the price
\* is a strictly positive integer.
C2_PricePositive ==
    stage = "returned" =>
        \A k \in 1..Len(results) :
            /\ "price" \in DOMAIN products[results[k]]
            /\ products[results[k]].price \in Nat \ {0}

\* The rows of table t that came from the record with this url.
RowsOf(t, url) == { r \in 1..Len(t) : t[r].url = url }

\* C1: a candidate whose detail fetch failed after its retries, or whose
\* page text yields no parseable price, is never in the list the pipeline
\* collects and returns, and has no row in the table main builds and saves.
C1_RejectedAbsent ==
    entry = "main" =>
        \A i \in Tasks :
            ( /\ futures[i].at = "done"
              /\ \/ futures[i].html = None
                 \/ TaskHasText(i) /\ ~ParseablePrice(TaskText(i)) ) =>
                /\ futures[i].ret = "none"
                /\ \A k \in 1..Len(results) : results[k] # i
                /\ pc \in {"aggregated", "done"} =>
                      /\ RowsOf(df, products[i].url) = {}
                      /\ \A k \in 1..Len(given) : given[k].url # products[i].url
                /\ saved # None => RowsOf(saved[1], products[i].url) = {}

\* A finished run over two candidates: the first one's text had a comma-only
\* run after "or RMB", the second was accepted; the saved table has the one
\* row of the second.
C1_Witness ==
    /\ entry = "main" /\ pc = "done"
    /\ Len(products) = 2
    /\ futures[1].html = Some(<<Kw("or"), Kw("RMB"), <<",">>, Kw("RMB"), <<"5">>>>)
    /\ futures[1].cause = "no_price"
    /\ futures[2].ret = "product"
    /\ results = <<2>>
    /\ Len(saved[1]) = 1 /\ saved[1][1].url = products[2].url

\* C15: while main runs the pipeline over the candidates discovered, each
\* record is worked on by one task, started once; and the record a task
\* returns is a copy: the candidate records main holds are still what
\* parse_product_list produced, title and url only.
C15_FinishedCopy ==
    (entry = "main" /\ pc = "pipeline") =>
        /\ Len(futures) = Len(products)
        /\ \A i \in Tasks : futures[i].starts <= 1
        /\ stage = "returned" => \A i \in Tasks : futures[i].starts = 1
        /\ products = parse_product_list(listing)

\* The url/price pairs of a sequence of records, as a bag.
RECURSIVE PairsOf(_)
PairsOf(rs) ==
    IF rs = <<>> THEN EmptyBag
    ELSE PairsOf(SubSeq(rs, 1, Len(rs) - 1))
         (+) SetToBag({<<rs[Len(rs)].url, rs[Len(rs)].price>>})

\* C19: the table main builds holds the accepted records, each once: its
\* rows are a rearrangement of the records the pipeline returned (after the
\* fill), with the same bag of url/price pairs, and as many as the accepted
\* count the pipeline reported; the saved table is that table.
C19_RowsArePermutation ==
    (entry = "main" /\ pc \in {"aggregated", "done"}) =>
        LET accepted == [k \in 1..Len(results) |-> products[results[k]]]
        IN  /\ Len(df) = Len(results)
            /\ Len(df) = report[1].accepted
            /\ PairsOf(df) = PairsOf(accepted)
            /\ PairsOf(df) = PairsOf(given)
            /\ \E o \in any_orders(accepted) :
                  df = [r \in 1..Len(df) |-> frame_rows(accepted)[o[r]]]
            /\ saved # None => saved[1] = df

\* Two accepted records collected in the order second, first, with prices
\* 5 and 3: the table holds both, the cheaper one first.
C19_Witness ==
    /\ entry = "main" /\ pc = "done"
    /\ results = <<2, 1>>
    /\ products[1].price = 3 /\ products[2].price = 5
    /\ Len(df) = 2
    /\ df[1].url = products[1].url /\ df[1].price = 3
    /\ df[2].url = products[2].url /\ df[2].price = 5
    /\ report = Some([accepted |-> 2, total |-> 2])

MainCalls ==
    <<"fetch_page", "parse_product_list", "process_products_parallel",
      "create_dataframe", "save_results">>

\* The number of GETs issued for detail pages so far: every task that has
\* got as far as fetch_page issued at least one.
DetailFetches == { i \in Tasks : futures[i].at \notin {"queued", "entered"}
                                   /\ futures[i].cause # "no_url" }

\* C6: main is stage-gated.  The stages are invoked in order, each at most
\* once; with no listing page discovery is never invoked; with zero
\* candidates the pipeline is never invoked and no detail GET is issued;
\* with zero accepted records neither aggregation nor serialization is
\* invoked; in each of these cases the run can only stop; and a table is
\* saved only after a non-empty accepted list has been aggregated into it.
C6_StageGated ==
    entry = "main" =>
        /\ Len(calls) <= Len(MainCalls)
        /\ calls = SubSeq(MainCalls, 1, Len(calls))
        /\ (fp.at = "done" /\ fp.result = None) =>
              /\ Len(calls) = 1
              /\ pc \in {"fetch_listing", "stopped_no_page"}
        /\ (Len(calls) >= 2 /\ products = <<>>) =>
              /\ Len(calls) = 2
              /\ pc \in {"parsed", "stopped_no_products"}
              /\ futures = <<>> /\ stage = "idle"
        /\ (stage = "returned" /\ results = <<>>) =>
              /\ Len(calls) = 3
              /\ pc \in {"pipeline", "stopped_no_details"}
              /\ saved = None /\ df = <<>>
        /\ Len(calls) < 3 => DetailFetches = {}
        /\ Len(calls) >= 4 => stage = "returned" /\ results # <<>>
        /\ saved # None =>
              /\ Len(calls) = 5
              /\ given # <<>> /\ Len(given) = Len(results)
              /\ saved = Some(df) /\ Len(df) = Len(given)
        /\ pc \in {"stopped_no_page", "stopped_no_products",
                    "stopped_no_details", "done"} => ~ENABLED Next

\* The pipeline ran on two candidates and returned no record: the run has
\* stopped at line 322 with nothing aggregated or saved.
C6_Witness ==
    /\ entry = "main" /\ pc = "stopped_no_details"
    /\ Len(products) = 2 /\ stage = "returned" /\ results = <<>>
    /\ calls = SubSeq(MainCalls, 1, 3)
    /\ saved = None

====
